---------------------------- MODULE Spec2Model ----------------------------
(* Model of mcp23017_scanner.py: the Event value, the two-list EventQueue  *)
(* and the McpMatrixScanner scan/diff cycle.                               *)
(*                                                                         *)
(* Program state: rows, columns, irq, keys_state, outq, inq (the scanner's *)
(* EventQueue), gpioa (the column output port) and ticks (the value of     *)
(* supervisor.ticks_ms).  History variables: call (the most recent call,   *)
(* its inputs and its outcome), fifo (the events appended and not yet      *)
(* returned, in append order), last_event (per key number, the kind of the *)
(* last event a cycle appended since construction or reset) and            *)
(* reset_cleared (the keys_state discarded by a reset no cycle followed).  *)
(*                                                                         *)
(* Specifications: Spec follows the scanner's cycles and its consumer,     *)
(* SpecScan applies _scan_matrix to every pin list and port reading,       *)
(* SpecQueue drives the EventQueue with events of its callers, SpecEvent   *)
(* builds, compares and hashes Events, SpecScoped uses the scanner in a    *)
(* with block, SpecPort follows the column port over every pin list.       *)
EXTENDS Integers, Sequences, FiniteSets

VARIABLES rows, columns, irq, keys_state, outq, inq, gpioa, ticks,
          call, fifo, last_event, reset_cleared

vars == <<rows, columns, irq, keys_state, outq, inq, gpioa, ticks,
          call, fifo, last_event, reset_cleared>>

---------------------------------------------------------------------------
(* Bounds *)

\* Longest queue the model lets grow.
MaxQueue == 2

\* The millisecond counter counts modulo TickMod.
TickMod == 2

---------------------------------------------------------------------------
(* Values *)

\* Python's None, as a return value.
None == [none |-> TRUE]

\* An optional argument: left out (None) or given.
Nothing == [given |-> FALSE]

Some(v) == [given |-> TRUE, value |-> v]

Stamps == 0 .. (TickMod - 1)

\* Row and column pin lists the scanner is built from.
RowPinLists == {<<0>>, <<0, 1>>}

ColumnPinLists == {<<0>>, <<1>>, <<0, 1>>, <<1, 0>>, <<0, 2>>}

\* Values the row port (gpiob) can read: all high, one or both of rows 0
\* and 1 low with the unused pins pulled up, and every pin low.
ReadValues == {255, 254, 253, 252, 0}

\* Key numbers of the events a caller builds and appends itself.
CallerKeys == {0, 1}

\* Key numbers of the events that are compared and hashed.
ComparedKeys == {0, 1, 2}

\* The timestamp argument of Event(): left out, or any clock value.
TimestampArgs == {Nothing} \cup {Some(t) : t \in Stamps}

\* The reusable events a caller hands to get_into.
Targets ==
    {[key_number |-> 0, timestamp |-> 0, pressed |-> FALSE],
     [key_number |-> 1, timestamp |-> TickMod - 1, pressed |-> TRUE]}

Reverse(s) == [i \in 1 .. Len(s) |-> s[Len(s) + 1 - i]]

Pow2(n) == 2 ^ n

\* (value >> bit) & 1
BitOf(value, bit) == (value \div Pow2(bit)) % 2

\* The sequences that enumerate the set S once each: the orders a Python
\* set can be iterated in.
Orderings(S) ==
    {s \in [1 .. Cardinality(S) -> S] :
        \A i, j \in 1 .. Cardinality(S) : i # j => s[i] # s[j]}

---------------------------------------------------------------------------
(* Event *)

\* Python truth value of a timestamp argument: None and 0 are false.
TimestampTruthy(timestamp) == timestamp.given /\ timestamp.value # 0

\* Event.__init__(key, pressed, timestamp), with now the value ticks_ms()
\* returns if it is called.
EventInit(key, pressed, timestamp, now) ==
    [key_number |-> key,
     timestamp  |-> IF TimestampTruthy(timestamp) THEN timestamp.value ELSE now,
     pressed    |-> pressed]

\* Event.__eq__
EventEq(self, other) ==
    self.key_number = other.key_number /\ self.pressed = other.pressed

\* int(pressed)
IntOfBool(b) == IF b THEN 1 ELSE 0

\* A hash that mixes the timestamp in.
EventHash_WithTimestamp(self) ==
    self.key_number * Pow2(1 + IntOfBool(self.pressed)) + self.timestamp

\* Event.__hash__: + binds tighter than <<, so the value is
\* key_number << (1 + int(pressed)).
EventHash(self) == self.key_number * Pow2(1 + IntOfBool(self.pressed))

---------------------------------------------------------------------------
(* EventQueue *)

\* get() refilling outq with the contents of inq without reversing them.
QueueGet_NoReverse(o, i) ==
    IF o # <<>>
    THEN [ret |-> o[Len(o)], outq |-> SubSeq(o, 1, Len(o) - 1), inq |-> i]
    ELSE IF Len(i) = 1
    THEN [ret |-> i[1], outq |-> o, inq |-> <<>>]
    ELSE IF i # <<>>
    THEN [ret |-> i[Len(i)], outq |-> SubSeq(i, 1, Len(i) - 1), inq |-> <<>>]
    ELSE [ret |-> None, outq |-> o, inq |-> i]

\* EventQueue.get on the lists (o, i): the value returned and the lists after.
QueueGet(o, i) ==
    IF o # <<>>
    THEN [ret |-> o[Len(o)], outq |-> SubSeq(o, 1, Len(o) - 1), inq |-> i]
    ELSE IF Len(i) = 1
    THEN [ret |-> i[1], outq |-> o, inq |-> <<>>]
    ELSE IF i # <<>>
    THEN LET r == Reverse(i)
         IN  [ret |-> r[Len(r)], outq |-> SubSeq(r, 1, Len(r) - 1), inq |-> <<>>]
    ELSE [ret |-> None, outq |-> o, inq |-> i]

\* An Event whose truth value is that of its timestamp.
EventTruthy_ByTimestamp(ev) == ev # None /\ ev.timestamp # 0

\* Python truth value of what get() returned: an Event defines neither
\* __bool__ nor __len__, so every Event is true; None is false.
EventTruthy(ev) == ev # None

\* EventQueue.get_into(event): the value returned, the target's fields and
\* the lists after.
QueueGetInto(target, o, i) ==
    LET g == QueueGet(o, i)
    IN  IF EventTruthy(g.ret)
        THEN [ret |-> TRUE,
              event |-> [key_number |-> g.ret.key_number,
                         timestamp  |-> g.ret.timestamp,
                         pressed    |-> g.ret.pressed],
              outq |-> g.outq, inq |-> g.inq]
        ELSE [ret |-> FALSE, event |-> target, outq |-> g.outq, inq |-> g.inq]

\* clear() emptying inq only.
QueueClear_InqOnly(o, i) == [outq |-> o, inq |-> <<>>]

\* EventQueue.clear: the lists after.
QueueClear(o, i) == [outq |-> <<>>, inq |-> <<>>]

\* __len__ counting inq only.
QueueLen_InqOnly(o, i) == Len(i)

\* EventQueue.__len__
QueueLen(o, i) == Len(o) + Len(i)

\* EventQueue.__bool__
QueueBool(o, i) == QueueLen(o, i) > 0

---------------------------------------------------------------------------
(* McpMatrixScanner *)

\* McpMatrixScanner.__init__: key_count
KeyCount(r, c) == Len(c) * Len(r)

\* The key number _scan_matrix gives the key at scan_column, row.
ScanKeyNumber(scan_column, num_cols, row) == scan_column + num_cols * row

\* The select value with the bit of the column high and the others low.
ColumnSelect_ActiveHigh(scan_column) == Pow2(scan_column)

\* The value written to gpioa while scan_column is under test.
ColumnSelect(scan_column) == 255 - Pow2(scan_column)

\* The gate taking a pin that reads true as asserted.
GateOpen_ActiveHigh(q, irq_value) == q = "None" \/ irq_value

\* Whether _scan_matrix reads gpiob for a column: no interrupt pin, or the
\* pin reads false.
GateOpen(q, irq_value) == q = "None" \/ ~irq_value

\* The keys one column adds to the pressed set, given the value read.
ColumnPressed(scan_column, r, num_cols, inputs) ==
    IF inputs # 0
    THEN {ScanKeyNumber(scan_column, num_cols, r[j]) :
            j \in {k \in 1 .. Len(r) : BitOf(inputs, r[k]) = 0}}
    ELSE {}

\* The pressed set _scan_matrix has accumulated once the first n columns
\* are done, where irq_values[i] is what the interrupt pin and inputs[i]
\* what gpiob reads while the i-th column is selected.
ScanPartial(c, r, q, irq_values, inputs, n) ==
    UNION {IF GateOpen(q, irq_values[i])
           THEN ColumnPressed(c[i], r, Len(c), inputs[i])
           ELSE {} : i \in 1 .. n}

\* The columns, by position, for which _scan_matrix reads gpiob.
ColumnsRead(c, q, irq_values) ==
    {i \in 1 .. Len(c) : GateOpen(q, irq_values[i])}

\* _scan_matrix: the pressed set returned.
ScanMatrix(c, r, q, irq_values, inputs) ==
    ScanPartial(c, r, q, irq_values, inputs, Len(c))

\* The values _scan_matrix writes to gpioa, in order.
ScanWrites(c) == [i \in 1 .. Len(c) |-> ColumnSelect(c[i])] \o <<255>>

\* The set algebra gone wrong: no key reported released, every key down
\* reported pressed.
ReleasedKeys_Never(previous_state, current_state) == {}

PressedKeys_AllDown(previous_state, current_state) == current_state

\* update_queue: the set algebra.
ReleasedKeys(previous_state, current_state) == previous_state \ current_state

PressedKeys(previous_state, current_state) == current_state \ previous_state

\* key_number_to_row_column
KeyNumberToRowColumn(key_number, c) ==
    <<key_number \div Len(c), key_number % Len(c)>>

\* row_column_to_key_number
RowColumnToKeyNumber(row, column, c) == row * Len(c) + column

\* Every key number a scan of this matrix can produce.
ScanKeys(r, c) ==
    {ScanKeyNumber(c[i], Len(c), r[j]) : i \in 1 .. Len(c), j \in 1 .. Len(r)}

\* What the interrupt pin can read during a scan: nothing is read without
\* a pin.
IrqReadings(c, q) ==
    IF q = "None" THEN {[i \in 1 .. Len(c) |-> FALSE]}
    ELSE [1 .. Len(c) -> BOOLEAN]

---------------------------------------------------------------------------
(* Initial states *)

\* The state after McpMatrixScanner(mcp, r, c, irq=q).  __init__ does not
\* write gpioa: the port holds the expander's power-on value.
Constructed(r, c, q) ==
    /\ rows = r
    /\ columns = c
    /\ irq = q
    /\ keys_state = {}
    /\ outq = <<>>
    /\ inq = <<>>
    /\ gpioa = 0
    /\ ticks \in Stamps
    /\ call = [op |-> "__init__"]
    /\ fifo = <<>>
    /\ last_event = [k \in ScanKeys(r, c) |-> "none"]
    /\ reset_cleared = <<>>

\* The matrices the scan/diff cycle is followed on: one row and two
\* columns, and two rows on the column at pin 1.
CycleMatrices == {<<(<<0>>), (<<0, 1>>)>>, <<(<<0, 1>>), (<<1>>)>>}

Init ==
    \E m \in CycleMatrices, q \in {"None", "pin"} : Constructed(m[1], m[2], q)

\* Every scanner built from the pin lists.
InitScan ==
    \E r \in RowPinLists, c \in ColumnPinLists, q \in {"None", "pin"} :
        Constructed(r, c, q)

\* An EventQueue used on its own: the queue of a one-key scanner.
InitQueue == Constructed(<<0>>, <<0>>, "None")

---------------------------------------------------------------------------
(* Operations *)

\* supervisor.ticks_ms advances.
Tick ==
    /\ ticks' = (ticks + 1) % TickMod
    /\ call' = [op |-> "tick"]
    /\ UNCHANGED <<rows, columns, irq, keys_state, outq, inq, gpioa, fifo,
                   last_event, reset_cleared>>

\* Two events are built, compared and hashed.
EventCompare ==
    \E ka \in ComparedKeys, pa \in BOOLEAN, ta \in TimestampArgs,
       kb \in ComparedKeys, pb \in BOOLEAN, tb \in TimestampArgs :
        LET a == EventInit(ka, pa, ta, ticks)
            b == EventInit(kb, pb, tb, ticks)
        IN  /\ call' = [op |-> "__eq__", self |-> a, other |-> b,
                        ret |-> EventEq(a, b),
                        hash_self |-> EventHash(a), hash_other |-> EventHash(b)]
            /\ UNCHANGED <<rows, columns, irq, keys_state, outq, inq, gpioa,
                           ticks, fifo, last_event, reset_cleared>>

\* events.append(Event(key, pressed, timestamp)): a caller builds an event
\* and appends it.
QueueAppend ==
    \E key \in CallerKeys, pressed \in BOOLEAN, timestamp \in TimestampArgs :
        LET event == EventInit(key, pressed, timestamp, ticks)
        IN  /\ QueueLen(outq, inq) < MaxQueue
            /\ inq' = Append(inq, event)
            /\ fifo' = Append(fifo, event)
            /\ call' = [op |-> "append", timestamp |-> timestamp,
                        now |-> ticks, event |-> event]
            /\ UNCHANGED <<rows, columns, irq, keys_state, outq, gpioa, ticks,
                           last_event, reset_cleared>>

\* events.get()
Get ==
    LET g == QueueGet(outq, inq)
    IN  /\ outq' = g.outq
        /\ inq' = g.inq
        /\ fifo' = IF g.ret # None /\ fifo # <<>> THEN Tail(fifo) ELSE fifo
        /\ call' = [op |-> "get", ret |-> g.ret, pending |-> fifo]
        /\ UNCHANGED <<rows, columns, irq, keys_state, gpioa, ticks,
                       last_event, reset_cleared>>

\* events.get_into(target)
GetInto ==
    \E target \in Targets :
        LET g == QueueGetInto(target, outq, inq)
        IN  /\ outq' = g.outq
            /\ inq' = g.inq
            /\ fifo' = IF g.ret /\ fifo # <<>> THEN Tail(fifo) ELSE fifo
            /\ call' = [op |-> "get_into", ret |-> g.ret, target |-> target,
                        event |-> g.event, pending |-> fifo,
                        outq |-> outq, inq |-> inq]
            /\ UNCHANGED <<rows, columns, irq, keys_state, gpioa, ticks,
                           last_event, reset_cleared>>

\* events.clear()
Clear ==
    LET c == QueueClear(outq, inq)
    IN  /\ outq' = c.outq
        /\ inq' = c.inq
        /\ fifo' = <<>>
        /\ call' = [op |-> "clear", had_outq |-> outq # <<>>,
                    had_inq |-> inq # <<>>]
        /\ UNCHANGED <<rows, columns, irq, keys_state, gpioa, ticks,
                       last_event, reset_cleared>>

\* The cycle's events with the pressed ones first.
CycleEvents_PressedFirst(rel, pre, timestamp, first_late) ==
    [i \in 1 .. (Len(pre) + Len(rel)) |->
        EventInit((pre \o rel)[i], i <= Len(pre), Some(timestamp),
                  IF i >= first_late THEN (timestamp + 1) % TickMod
                  ELSE timestamp)]

\* The events update_queue appends: a released event per key of rel, then
\* a pressed event per key of pre, each built by Event(key, pressed,
\* timestamp); those from the first_late-th on are built after the clock
\* advanced.
CycleEvents(rel, pre, timestamp, first_late) ==
    [i \in 1 .. (Len(rel) + Len(pre)) |->
        EventInit((rel \o pre)[i], i > Len(rel), Some(timestamp),
                  IF i >= first_late THEN (timestamp + 1) % TickMod
                  ELSE timestamp)]

\* The kind of the last event of events for key number k, or old if it has
\* none.
LastKind(events, k, old) ==
    LET at == {i \in 1 .. Len(events) : events[i].key_number = k}
    IN  IF at = {} THEN old
        ELSE IF events[CHOOSE i \in at : \A j \in at : j <= i].pressed
        THEN "pressed" ELSE "released"

\* The sets _scan_matrix can return when the interrupt pin reads
\* irq_values, over what the row port reads.
ScanResults(irq_values) ==
    {ScanMatrix(columns, rows, irq, irq_values, inputs) :
        inputs \in [1 .. Len(columns) -> ReadValues]}

\* update_queue(), every port access succeeding.  The clock may advance
\* while the cycle runs.
UpdateQueue ==
    \E irq_values \in IrqReadings(columns, irq) :
    \E current_state \in ScanResults(irq_values) :
        /\ QueueLen(outq, inq) + Cardinality(ReleasedKeys(keys_state, current_state))
             + Cardinality(PressedKeys(keys_state, current_state)) <= MaxQueue
        /\ \E rel \in Orderings(ReleasedKeys(keys_state, current_state)),
              pre \in Orderings(PressedKeys(keys_state, current_state)) :
            \E first_late \in 1 .. (Len(rel) + Len(pre) + 1) :
                LET events == CycleEvents(rel, pre, ticks, first_late)
                IN  /\ inq' = inq \o events
                    /\ keys_state' = current_state
                    /\ gpioa' = ScanWrites(columns)[Len(columns) + 1]
                    /\ ticks' = IF first_late <= Len(events)
                                 THEN (ticks + 1) % TickMod ELSE ticks
                    /\ fifo' = fifo \o events
                    /\ last_event' = [k \in DOMAIN last_event |->
                                         LastKind(events, k, last_event[k])]
                    /\ reset_cleared' = <<>>
                    /\ call' = [op |-> "update_queue", raised |-> FALSE,
                                timestamp |-> ticks,
                                previous_state |-> keys_state,
                                current_state |-> current_state,
                                appended |-> SubSeq(inq', Len(inq) + 1, Len(inq')),
                                after_reset |-> reset_cleared,
                                irq_values |-> irq_values,
                                reads |-> ColumnsRead(columns, irq, irq_values),
                                writes |-> ScanWrites(columns)]
                    /\ UNCHANGED <<rows, columns, irq, outq>>

\* update_queue() storing what a failed scan had accumulated.
UpdateQueueIOError_Merges ==
    \E irq_values \in IrqReadings(columns, irq),
       at \in 1 .. (Len(columns) + 1), access \in {"write", "read"} :
        \E inputs \in [1 .. (at - 1) -> ReadValues] :
            /\ access = "read" =>
                   at <= Len(columns) /\ GateOpen(irq, irq_values[at])
            /\ UNCHANGED <<rows, columns, irq, outq, inq, ticks, fifo,
                           last_event, reset_cleared>>
            /\ keys_state' = ScanPartial(columns, rows, irq, irq_values,
                                         inputs, at - 1)
            /\ gpioa' = IF access = "read" THEN ScanWrites(columns)[at]
                         ELSE IF at = 1 THEN gpioa
                         ELSE ScanWrites(columns)[at - 1]
            /\ call' = [op |-> "update_queue", raised |-> TRUE,
                        timestamp |-> ticks,
                        previous_state |-> keys_state,
                        appended |-> SubSeq(inq', Len(inq) + 1, Len(inq')),
                        after_reset |-> reset_cleared,
                        writes |-> SubSeq(ScanWrites(columns), 1,
                                          IF access = "read" THEN at ELSE at - 1)]

\* update_queue() when a port access inside _scan_matrix raises: the write
\* that selects column at (at = Len(columns) + 1: the write that restores
\* the port), or the read of the row port for column at.  The error
\* leaves update_queue at line 172.
UpdateQueueIOError ==
    \E irq_values \in IrqReadings(columns, irq),
       at \in 1 .. (Len(columns) + 1), access \in {"write", "read"} :
        /\ access = "read" =>
               at <= Len(columns) /\ GateOpen(irq, irq_values[at])
        /\ UNCHANGED <<rows, columns, irq, keys_state, outq, inq, ticks,
                       fifo, last_event, reset_cleared>>
        /\ gpioa' = IF access = "read" THEN ScanWrites(columns)[at]
                     ELSE IF at = 1 THEN gpioa
                     ELSE ScanWrites(columns)[at - 1]
        /\ call' = [op |-> "update_queue", raised |-> TRUE,
                    timestamp |-> ticks,
                    previous_state |-> keys_state,
                    appended |-> SubSeq(inq', Len(inq) + 1, Len(inq')),
                    after_reset |-> reset_cleared,
                    writes |-> SubSeq(ScanWrites(columns), 1,
                                      IF access = "read" THEN at ELSE at - 1)]

\* reset() clearing the queue and leaving keys_state.
Reset_KeepsKeysState ==
    LET c == QueueClear(outq, inq)
    IN  /\ outq' = c.outq
        /\ inq' = c.inq
        /\ fifo' = <<>>
        /\ last_event' = [k \in DOMAIN last_event |-> "none"]
        /\ reset_cleared' = <<keys_state>>
        /\ call' = [op |-> "reset"]
        /\ UNCHANGED <<rows, columns, irq, keys_state, gpioa, ticks>>

\* reset()
Reset ==
    LET c == QueueClear(outq, inq)
    IN  /\ outq' = c.outq
        /\ inq' = c.inq
        /\ keys_state' = {}
        /\ fifo' = <<>>
        /\ last_event' = [k \in DOMAIN last_event |-> "none"]
        /\ reset_cleared' = <<keys_state>>
        /\ call' = [op |-> "reset"]
        /\ UNCHANGED <<rows, columns, irq, gpioa, ticks>>

\* deinit() that releases the pin and keeps holding it.
ScannerDeinit_KeepsIrq(q) ==
    [irq |-> q, released |-> q # "None", raised |-> FALSE]

\* McpMatrixScanner.deinit on a scanner whose irq is q: irq after, whether
\* the pin's deinit was called, whether the call raised.
ScannerDeinit(q) ==
    IF q # "None"
    THEN [irq |-> "None", released |-> TRUE, raised |-> FALSE]
    ELSE [irq |-> q, released |-> FALSE, raised |-> FALSE]

\* Whether __exit__, declared as __exit__(self), can be called with nargs
\* more arguments.
ExitAccepts(nargs) == nargs = 0

\* McpMatrixScanner.__exit__ called with nargs arguments: a call it does
\* not accept raises TypeError before its body runs.
ScannerExit(q, nargs) ==
    IF ExitAccepts(nargs) THEN ScannerDeinit(q)
    ELSE [irq |-> q, released |-> FALSE, raised |-> TRUE]

\* deinit(); previous tells whether the call before was a deinit too, and
\* whether that one released the pin.
Deinit ==
    LET d == ScannerDeinit(irq)
    IN  /\ irq' = d.irq
        /\ call' = [op |-> "deinit", released |-> d.released,
                    raised |-> d.raised,
                    previous |-> IF call.op = "deinit" THEN <<call.released>>
                                 ELSE <<>>]
        /\ UNCHANGED <<rows, columns, keys_state, outq, inq, gpioa, ticks,
                       fifo, last_event, reset_cleared>>

\* with scanner: ... -- __enter__ returns the scanner, the block completes
\* or raises, and the with statement calls __exit__ with the exception
\* type, value and traceback (three arguments, None when there is none).
With ==
    \E body_raised \in BOOLEAN :
        LET x == ScannerExit(irq, 3)
        IN  /\ irq' = x.irq
            /\ call' = [op |-> "with", body_raised |-> body_raised,
                        had_irq |-> irq # "None", released |-> x.released,
                        raised |-> x.raised]
            /\ UNCHANGED <<rows, columns, keys_state, outq, inq, gpioa, ticks,
                           fifo, last_event, reset_cleared>>

\* _scan_matrix() on its own, with what the interrupt pin and the row port
\* read while each column is selected.
Scan ==
    \E irq_values \in IrqReadings(columns, irq),
       inputs \in [1 .. Len(columns) -> ReadValues] :
        /\ gpioa' = ScanWrites(columns)[Len(columns) + 1]
        /\ call' = [op |-> "_scan_matrix", irq_values |-> irq_values,
                    inputs |-> inputs,
                    pressed |-> ScanMatrix(columns, rows, irq, irq_values,
                                           inputs),
                    writes |-> ScanWrites(columns)]
        /\ UNCHANGED <<rows, columns, irq, keys_state, outq, inq, ticks, fifo,
                       last_event, reset_cleared>>

\* The scanner and its consumer.  The clock advances while the cycles run.
Next ==
    \/ UpdateQueue
    \/ UpdateQueueIOError
    \/ Reset
    \/ Deinit
    \/ Get

Spec == Init /\ [][Next]_vars

\* _scan_matrix as a function of the pin lists and the port readings.
NextScan == Scan \/ Deinit

SpecScan == InitScan /\ [][NextScan]_vars

\* The EventQueue and its callers.
NextQueue == Tick \/ QueueAppend \/ Get \/ GetInto \/ Clear

SpecQueue == InitQueue /\ [][NextQueue]_vars

\* The scanner used in with blocks.
NextScoped == With \/ Deinit

SpecScoped == InitScan /\ [][NextScoped]_vars

\* The column port over every pin list, cycle after cycle.
NextPort == UpdateQueue \/ UpdateQueueIOError \/ Reset

SpecPort == InitScan /\ [][NextPort]_vars

\* The Event value and its callers.
NextEvent == Tick \/ EventCompare

SpecEvent == InitQueue /\ [][NextEvent]_vars

---------------------------------------------------------------------------
(* Properties of the EventQueue (SpecQueue) *)

\* The events the two lists hold, oldest first.
QueueContents == Reverse(outq) \o inq

\* C1: the queue is FIFO under every interleaving of append and get: what
\* the lists hold is exactly the events appended and not yet returned, in
\* append order; a get returns the oldest of them, and returns None exactly
\* when there is none.
C1_Fifo ==
    /\ QueueContents = fifo
    /\ call.op = "get" =>
         IF call.pending = <<>> THEN call.ret = None
         ELSE call.ret = Head(call.pending)

\* A get served from outq while inq already holds a later event.
C1_Witness ==
    /\ call.op = "get"
    /\ call.ret # None
    /\ Len(call.pending) >= 2
    /\ inq # <<>>

\* C7: get_into on a non-empty queue removes the event get would have
\* returned, the oldest, copies its three fields into the target and
\* returns True; on an empty queue it returns False and leaves the target
\* and the queue as they were.
C7_GetInto ==
    call.op = "get_into" =>
        LET g == QueueGet(call.outq, call.inq)
        IN  IF QueueLen(call.outq, call.inq) > 0
            THEN /\ call.ret = TRUE
                 /\ g.ret = Head(call.pending)
                 /\ call.event.key_number = g.ret.key_number
                 /\ call.event.pressed = g.ret.pressed
                 /\ call.event.timestamp = g.ret.timestamp
                 /\ outq = g.outq
                 /\ inq = g.inq
            ELSE /\ call.ret = FALSE
                 /\ call.event = call.target
                 /\ outq = call.outq
                 /\ inq = call.inq

\* get_into took an event with key_number 0 and timestamp 0 into a target
\* that held other values.
C7_Witness ==
    /\ call.op = "get_into"
    /\ call.ret = TRUE
    /\ call.event.key_number = 0
    /\ call.event.timestamp = 0
    /\ call.target # call.event

\* C8: after clear the queue has length 0 and is false, a get would return
\* None and a get_into False; from then on the lists hold only the events
\* appended since, in append order.
C8_Clear ==
    /\ call.op = "clear" =>
         /\ QueueLen(outq, inq) = 0
         /\ ~QueueBool(outq, inq)
         /\ QueueGet(outq, inq).ret = None
         /\ \A target \in Targets : QueueGetInto(target, outq, inq).ret = FALSE
    /\ call.op \in {"clear", "append", "get", "get_into"} => QueueContents = fifo

\* A clear of a queue that held events in both lists.
C8_Witness == call.op = "clear" /\ call.had_outq /\ call.had_inq

\* C9: len(queue) is the number of events appended since the last clear
\* less the number returned since, and bool(queue) is len(queue) > 0.
C9_Length ==
    /\ QueueLen(outq, inq) = Len(fifo)
    /\ QueueBool(outq, inq) = (Len(fifo) > 0)

\* Both lists hold events.
C9_Witness == outq # <<>> /\ inq # <<>> /\ Len(fifo) = MaxQueue

\* C10: an Event built with an explicit timestamp carries it, 0 included,
\* and an Event built without one carries the clock's value.
C10_Timestamp ==
    call.op = "append" =>
        IF call.timestamp.given
        THEN call.event.timestamp = call.timestamp.value
        ELSE call.event.timestamp = call.now

---------------------------------------------------------------------------
(* Properties of the scan/diff cycle (Spec) and of the scan (SpecScan) *)

\* A call of update_queue that returned.
CycleDone == call.op = "update_queue" /\ ~call.raised

\* How many of the events carry key number k and the given pressed value.
CountEvents(events, k, pressed) ==
    Cardinality({i \in 1 .. Len(events) :
                    events[i].key_number = k /\ events[i].pressed = pressed})

\* C2: a cycle appends exactly one pressed event per key number of
\* current_state - previous_state, exactly one released event per key
\* number of previous_state - current_state and nothing else, and leaves
\* keys_state equal to current_state.
C2_Diff ==
    CycleDone =>
        LET newly_pressed == call.current_state \ call.previous_state
            newly_released == call.previous_state \ call.current_state
        IN  /\ \A k \in newly_pressed : CountEvents(call.appended, k, TRUE) = 1
            /\ \A k \in newly_released : CountEvents(call.appended, k, FALSE) = 1
            /\ \A i \in 1 .. Len(call.appended) :
                 IF call.appended[i].pressed
                 THEN call.appended[i].key_number \in newly_pressed
                 ELSE call.appended[i].key_number \in newly_released
            /\ keys_state = call.current_state

\* A cycle in which one key went down and another came up.
C2_Witness ==
    /\ CycleDone
    /\ call.current_state \ call.previous_state # {}
    /\ call.previous_state \ call.current_state # {}
    /\ Len(call.appended) = 2

\* keys_state is the set of key numbers whose last appended event is a press.
KeysStateIsLastPressed ==
    keys_state = {k \in DOMAIN last_event : last_event[k] = "pressed"}

\* A cycle appends at most one event per key number; a pressed event only
\* for a key whose last event was not a press, a released event only for a
\* key whose last event was a press.
AlternationStep ==
    (call'.op = "update_queue" /\ ~call'.raised) =>
        \A i \in 1 .. Len(call'.appended) :
            LET e == call'.appended[i]
            IN  /\ \A j \in 1 .. Len(call'.appended) :
                     call'.appended[j].key_number = e.key_number => j = i
                /\ IF e.pressed THEN last_event[e.key_number] # "pressed"
                   ELSE last_event[e.key_number] = "pressed"

\* C3: since construction or the last reset, the events the cycles append
\* for a key number alternate between pressed and released, starting with
\* pressed, and keys_state is the set of key numbers whose most recent
\* appended event is a press.
C3_Alternation == []KeysStateIsLastPressed /\ [][AlternationStep]_vars

\* A key that went down, came up and is down again.
C3_Witness ==
    /\ CycleDone
    /\ \E k \in call.current_state :
         /\ k \notin call.previous_state
         /\ \E i \in 1 .. Len(fifo) :
              fifo[i].key_number = k /\ ~fifo[i].pressed

\* The keys the scan found down, as (row pin, column pin) pairs.
KeysFoundDown ==
    {p \in {<<rows[j], columns[i]>> : j \in 1 .. Len(rows),
                                      i \in 1 .. Len(columns)} :
        \E i \in 1 .. Len(columns) :
            /\ columns[i] = p[2]
            /\ GateOpen(irq, call.irq_values[i])
            /\ call.inputs[i] # 0
            /\ BitOf(call.inputs[i], p[1]) = 0}

\* C4: every key number the scan puts in the pressed set is at least 0 and
\* less than key_count, and two different keys never get the same key
\* number.
C4_KeyNumbers ==
    call.op = "_scan_matrix" =>
        /\ \A k \in call.pressed : 0 <= k /\ k < KeyCount(rows, columns)
        /\ \A p, q \in KeysFoundDown :
             p # q => ScanKeyNumber(p[2], Len(columns), p[1])
                        # ScanKeyNumber(q[2], Len(columns), q[1])

\* C5: reset leaves the queue with length 0 and keys_state empty, and the
\* next cycle appends exactly one pressed event for every key its scan
\* finds down.
C5_Reset ==
    /\ call.op = "reset" => QueueLen(outq, inq) = 0 /\ keys_state = {}
    /\ (CycleDone /\ call.after_reset # <<>>) =>
         \A k \in call.current_state :
             /\ CountEvents(call.appended, k, TRUE) = 1
             /\ CountEvents(call.appended, k, FALSE) = 0

\* The first cycle after a reset finds down a key that was in keys_state
\* when reset was called.
C5_Witness ==
    /\ CycleDone
    /\ call.after_reset # <<>>
    /\ call.current_state \cap call.after_reset[1] # {}

\* A cycle that raised left keys_state as it was and appended nothing.
FailedCycleChangesNothing ==
    (call.op = "update_queue" /\ call.raised) =>
        keys_state = call.previous_state /\ call.appended = <<>>

\* The cycle that follows one that raised starts from the keys_state the
\* failed one started from.
NextCycleDiffsAgainstSameState ==
    (call.op = "update_queue" /\ call.raised /\ call'.op = "update_queue") =>
        call'.previous_state = call.previous_state

\* C6: when a port access raises inside _scan_matrix, keys_state is what it
\* was before the call and no event has been appended, and the next cycle
\* computes its diff against that state.
C6_IOError ==
    []FailedCycleChangesNothing /\ [][NextCycleDiffsAgainstSameState]_vars

\* A scan that failed after its first column select, with a key down in
\* keys_state and an event waiting in the queue.
C6_Witness ==
    /\ call.op = "update_queue"
    /\ call.raised
    /\ call.writes # <<>>
    /\ keys_state # {}
    /\ QueueLen(outq, inq) > 0

---------------------------------------------------------------------------
(* Properties of the Event value (SpecEvent) *)

\* C11: two Events are equal if and only if their key_number and pressed
\* values match, whatever their timestamps, and two Events whose
\* key_number and pressed match have the same hash.
C11_EqHash ==
    call.op = "__eq__" =>
        LET same == /\ call.self.key_number = call.other.key_number
                    /\ call.self.pressed = call.other.pressed
        IN  /\ call.ret = same
            /\ same => call.hash_self = call.hash_other

\* Two equal events with different timestamps.
C11_Witness ==
    /\ call.op = "__eq__"
    /\ call.ret
    /\ call.self.timestamp # call.other.timestamp
    /\ call.self.key_number # 0

---------------------------------------------------------------------------
(* Properties of the key-number mapping (SpecScan) *)

\* The (row, column) pairs of the matrix, counted from 0.
ValidPairs ==
    {<<row, column>> : row \in 0 .. (Len(rows) - 1),
                       column \in 0 .. (Len(columns) - 1)}

\* C12: key_number_to_row_column undoes row_column_to_key_number on every
\* valid (row, column) pair, and for every key the scan finds down the key
\* number put in the pressed set is row_column_to_key_number of its row and
\* column, from which key_number_to_row_column recovers that row and
\* column.
C12_RoundTrip ==
    call.op = "_scan_matrix" =>
        /\ \A p \in ValidPairs :
             KeyNumberToRowColumn(RowColumnToKeyNumber(p[1], p[2], columns),
                                  columns) = p
        /\ \A p \in KeysFoundDown :
             LET k == ScanKeyNumber(p[2], Len(columns), p[1])
             IN  /\ k \in call.pressed
                 /\ k = RowColumnToKeyNumber(p[1], p[2], columns)
                 /\ KeyNumberToRowColumn(k, columns) = p

---------------------------------------------------------------------------
(* Properties of the scanner's release (SpecScoped, Spec) *)

\* C13: leaving a with block, normally or by an error raised inside it,
\* runs deinit: after the block the interrupt pin has been released and
\* irq is None.
C13_ScopedRelease ==
    call.op = "with" =>
        /\ irq = "None"
        /\ call.had_irq => call.released

\* A deinit leaves irq None, does not raise, releases the pin exactly when
\* the scanner held one, and not again right after a deinit.
DeinitOutcome ==
    call.op = "deinit" =>
        /\ irq = "None"
        /\ ~call.raised
        /\ call.previous # <<>> => ~call.released

\* A deinit releases the pin only if the scanner held it, and leaves
\* keys_state and the queue as they were; one that follows a deinit leaves
\* irq as it was.
DeinitStep ==
    call'.op = "deinit" =>
        /\ call'.released = (irq # "None")
        /\ keys_state' = keys_state
        /\ outq' = outq
        /\ inq' = inq
        /\ call.op = "deinit" => irq' = irq

\* C14: deinit is idempotent: a second deinit leaves the state the first
\* one left (irq None, keys_state and the queue untouched), the pin is
\* released once at most over the two calls, and neither call fails.
C14_DeinitIdempotent == []DeinitOutcome /\ [][DeinitStep]_vars

\* A second deinit on a scanner whose pin the first one released, with
\* keys down and events queued.
C14_Witness ==
    /\ call.op = "deinit"
    /\ call.previous = <<TRUE>>
    /\ keys_state # {}
    /\ QueueLen(outq, inq) > 0

---------------------------------------------------------------------------
(* Properties of the scan without a pin and of the cycle's timestamp *)

\* C15: on a scanner with no interrupt pin, whatever the row port reads
\* while a column is selected (0x00 included), the key at a column and a
\* configured row is in the set _scan_matrix returns exactly when the bit
\* of that row is 0 in the value read for that column.
C15_ScanRule ==
    (call.op = "_scan_matrix" /\ irq = "None") =>
        \A i \in 1 .. Len(columns), j \in 1 .. Len(rows) :
            ScanKeyNumber(columns[i], Len(columns), rows[j]) \in call.pressed
                <=> BitOf(call.inputs[i], rows[j]) = 0

\* C16: every event a cycle appends carries the clock value update_queue
\* captured at its start, whatever that value is (0 included) and even if
\* the clock advances during the cycle.
C16_OneTimestamp ==
    CycleDone =>
        \A i \in 1 .. Len(call.appended) :
            call.appended[i].timestamp = call.timestamp

---------------------------------------------------------------------------
(* Properties of the interrupt-gated scan (Spec) *)

\* The columns, by position, that the last cycle found the interrupt pin
\* reading true for.
Deasserted ==
    {i \in 1 .. Len(columns) : call.irq_values[i]}

\* The key numbers of the column at position i.
KeysOfColumn(i) ==
    {ScanKeyNumber(columns[i], Len(columns), rows[j]) : j \in 1 .. Len(rows)}

\* C17 as stated: with an interrupt pin, a column whose pin reads true
\* during a cycle gets no event for its keys, and those of its keys that
\* were in keys_state before the cycle are in keys_state after it.
C17_SkippedUnchanged ==
    (CycleDone /\ irq = "pin") =>
        \A i \in Deasserted : \A k \in KeysOfColumn(i) :
            /\ CountEvents(call.appended, k, TRUE) = 0
            /\ CountEvents(call.appended, k, FALSE) = 0
            /\ k \in call.previous_state => k \in keys_state

\* C17, amended: with an interrupt pin, gpiob is read for exactly the
\* columns whose pin reads false, and a column that is not read adds no
\* key to the scan: a key of it that no column read shares is out of
\* keys_state after the cycle, gets no pressed event, and gets one released
\* event if it was in keys_state before.
C17_SkippedReleased ==
    (CycleDone /\ irq = "pin") =>
        /\ call.reads = (1 .. Len(columns)) \ Deasserted
        /\ \A i \in Deasserted :
             \A k \in KeysOfColumn(i) \ UNION {KeysOfColumn(n) : n \in call.reads} :
                /\ k \notin keys_state
                /\ CountEvents(call.appended, k, TRUE) = 0
                /\ CountEvents(call.appended, k, FALSE)
                     = (IF k \in call.previous_state THEN 1 ELSE 0)

\* A cycle that reads one column and skips another whose key was held.
C17_Witness ==
    /\ CycleDone
    /\ irq = "pin"
    /\ call.reads # {}
    /\ \E i \in Deasserted : KeysOfColumn(i) \cap call.previous_state # {}

---------------------------------------------------------------------------
(* Properties of the order of a cycle's events (Spec) and of the column
   port (SpecPort) *)

\* C18: in a cycle no pressed event is appended before a released one; the
\* cycle's events come after everything the queue already held, and a get
\* returns the oldest event held, so a consumer sees the releases of a
\* cycle before its presses and a cycle before the next.
C18_ReleasesFirst ==
    /\ CycleDone =>
         /\ \A i, j \in 1 .. Len(call.appended) :
               (i < j /\ call.appended[i].pressed) => call.appended[j].pressed
         /\ Len(call.appended) <= Len(QueueContents)
         /\ call.appended = SubSeq(QueueContents,
                                   Len(QueueContents) - Len(call.appended) + 1,
                                   Len(QueueContents))
    /\ (call.op = "get" /\ call.pending # <<>>) =>
         /\ call.ret = Head(call.pending)
         /\ QueueContents = Tail(call.pending)

\* A cycle that appended a release and then a press.
C18_Witness ==
    /\ CycleDone
    /\ \E i, j \in 1 .. Len(call.appended) :
          i < j /\ ~call.appended[i].pressed /\ call.appended[j].pressed

\* Whether an 8-bit port value has every bit high except those of low.
AllHighExcept(value, low) ==
    \A b \in 0 .. 7 : BitOf(value, b) = (IF b \in low THEN 0 ELSE 1)

\* C19: the i-th value a cycle writes to the column port has every bit
\* high except the bit of the i-th configured column, and after a cycle
\* that returns the port holds the all-high value.
C19_ColumnSelect ==
    call.op = "update_queue" =>
        /\ \A i \in 1 .. Len(call.writes) :
              i <= Len(columns) => AllHighExcept(call.writes[i], {columns[i]})
        /\ ~call.raised =>
              /\ Len(call.writes) = Len(columns) + 1
              /\ AllHighExcept(call.writes[Len(columns) + 1], {})
              /\ AllHighExcept(gpioa, {})

\* A returned cycle on columns configured out of pin order.
C19_Witness ==
    /\ CycleDone
    /\ Len(columns) = 2
    /\ columns[1] > columns[2]
    /\ call.appended # <<>>

===========================================================================
